---- MODULE Spec2Model ----
(***************************************************************************)
(* ServerManager: an administrative REPL for a game-server hosting panel.  *)
(* The model covers the index allocator, the process-wide allocation       *)
(* cache, the egg runtime resolver, the provisioning workflow, the bulk    *)
(* updater, the artifact upload retry loop and the command loop.           *)
(*                                                                         *)
(* Strings are sequences of one-character strings; the panel is an         *)
(* external system whose answers are drawn from bounded sets.              *)
(***************************************************************************)
EXTENDS Integers, Sequences, FiniteSets, TLC

VARIABLES
    cfg,          \* the process environment (os.environ), fixed after load_dotenv()
    allocations,  \* main.allocations: port -> allocation id
    pc,           \* position of the control thread
    loc,          \* local variables of the running function
    log,          \* requests sent to the panel by the running command, in order
    out,          \* console messages of the running command, in order
    cache0        \* allocations as it was when the running command started

vars == <<cfg, allocations, pc, loc, log, out, cache0>>

(***************************************************************************)
(* Bounds                                                                  *)
(***************************************************************************)
MaxCatalog == 3       \* longest server list the panel answers with
MaxAllocs == 2        \* longest allocation list the panel answers with
MaxRuns == 3          \* provisioning runs in a row
MaxServers == 3       \* longest server list the bulk updater is answered with

(***************************************************************************)
(* Python str / int primitives                                             *)
(***************************************************************************)
Digits == <<"0", "1", "2", "3", "4", "5", "6", "7", "8", "9">>

IsDigitChar(c) == \E i \in 1..10 : Digits[i] = c

DigitVal(c) == (CHOOSE i \in 1..10 : Digits[i] = c) - 1

\* str.isdigit(): non-empty and every character a digit
isdigit(s) == Len(s) > 0 /\ \A i \in 1..Len(s) : IsDigitChar(s[i])

\* int(s) for a digit string (leading zeros allowed)
RECURSIVE int(_)
int(s) == IF s = <<>> THEN 0
          ELSE int(SubSeq(s, 1, Len(s) - 1)) * 10 + DigitVal(s[Len(s)])

\* str(n) for n >= 0
RECURSIVE str(_)
str(n) == IF n < 10 THEN <<Digits[n + 1]>>
          ELSE str(n \div 10) \o <<Digits[(n % 10) + 1]>>

\* name.startswith(prefix)
startswith(name, prefix) ==
    /\ Len(prefix) <= Len(name)
    /\ SubSeq(name, 1, Len(prefix)) = prefix

\* name[len(prefix):]
StripPrefix(name, prefix) == SubSeq(name, Len(prefix) + 1, Len(name))

\* Optional[int]: None is the empty set, n is {n}
None == {}
Some(n) == {n}
TheVal(o) == CHOOSE n \in o : TRUE

(***************************************************************************)
(* Index allocator                                                         *)
(***************************************************************************)
\* variant: the startswith test is missing
_extract_suffix_index_any_name(name, prefix) ==
    IF prefix = <<>> THEN None
    ELSE LET suffix == StripPrefix(name, prefix)
         IN  IF isdigit(suffix)
             THEN LET n == int(suffix) IN IF n >= 1 THEN Some(n) ELSE None
             ELSE None

_extract_suffix_index(name, prefix) ==
    IF prefix = <<>> \/ ~startswith(name, prefix) THEN None
    ELSE LET suffix == StripPrefix(name, prefix)
         IN  IF isdigit(suffix)
             THEN LET n == int(suffix) IN IF n >= 1 THEN Some(n) ELSE None
             ELSE None

\* the loop of _next_index_for_kind over the listed names, from position i
RECURSIVE ScanMaxIdx(_, _, _, _)
ScanMaxIdx(items, prefix, i, max_idx) ==
    IF i > Len(items) THEN max_idx
    ELSE LET idx == _extract_suffix_index(items[i], prefix)
         IN  ScanMaxIdx(items, prefix, i + 1,
                        IF idx # None /\ TheVal(idx) > max_idx
                        THEN TheVal(idx) ELSE max_idx)

KindPrefix(c, kind) ==
    IF kind = "main" THEN c.MAIN_PREFIX ELSE c.INTERIOR_PREFIX

\* variant: the largest index found is returned as it is
_next_index_for_kind_no_increment(c, kind, listing) ==
    IF kind \notin {"main", "interior"} THEN [raised |-> TRUE, why |-> "kind"]
    ELSE IF KindPrefix(c, kind) = <<>> THEN [raised |-> TRUE, why |-> "prefix"]
    ELSE IF ~listing.ok THEN [raised |-> TRUE, why |-> "api"]
    ELSE [raised |-> FALSE,
          value |-> ScanMaxIdx(listing.items, KindPrefix(c, kind), 1, 0)]

\* _next_index_for_kind: [raised |-> TRUE] or [raised |-> FALSE, value |-> n].
\* listing is the answer of list_servers: [ok |-> FALSE] or [ok |-> TRUE, items |-> seq]
_next_index_for_kind(c, kind, listing) ==
    IF kind \notin {"main", "interior"} THEN [raised |-> TRUE, why |-> "kind"]
    ELSE IF KindPrefix(c, kind) = <<>> THEN [raised |-> TRUE, why |-> "prefix"]
    ELSE IF ~listing.ok THEN [raised |-> TRUE, why |-> "api"]
    ELSE [raised |-> FALSE,
          value |-> ScanMaxIdx(listing.items, KindPrefix(c, kind), 1, 0) + 1]

(***************************************************************************)
(* Configuration: the environment variables the program reads.  A value   *)
(* is a string; the empty string stands for unset (os.getenv gives None   *)
(* or "", and _get_env treats both alike).                                 *)
(***************************************************************************)
Unset == <<>>
NotAnInt == <<"x">>

SERVER_NAME == <<"S", "N">>      \* the key "SERVER_NAME"
MEMORY == <<"M", "E">>           \* some other environment key

EmptyMap == [k \in {} |-> <<>>]

\* a mapping with the given keys, all bound to v
ConstMap(keys, v) == [k \in keys |-> v]

BaseConfig ==
    [MAIN_PREFIX         |-> <<"M", "-">>,
     INTERIOR_PREFIX     |-> <<"I", "-">>,
     USER_ID             |-> <<"1">>,
     MAIN_EGG_ID         |-> <<"1", "5">>,
     INTERIOR_EGG_ID     |-> <<"1", "6">>,
     NEST_ID             |-> <<"5">>,
     MAIN_PORT_START     |-> <<"1", "0", "0">>,
     INTERIOR_PORT_START |-> <<"2", "0", "0">>,
     DOCKER_IMAGE        |-> Unset,
     STARTUP_CMD         |-> Unset,
     PANEL_ENV           |-> EmptyMap]   \* PANEL_ENV_<key> entries, keyed by <key>

\* _get_env(name, required): [raised |-> TRUE] when required and unset
_get_env(c, name, required) ==
    IF required /\ c[name] = Unset THEN [raised |-> TRUE]
    ELSE [raised |-> FALSE, value |-> c[name]]

\* _parse_int_env(name): int(val) raises ValueError on a non-integer
_parse_int_env(c, name) ==
    LET got == _get_env(c, name, TRUE)
    IN  IF got.raised THEN [raised |-> TRUE]
        ELSE IF ~isdigit(got.value) THEN [raised |-> TRUE]
        ELSE [raised |-> FALSE, value |-> int(got.value)]

NoAllocations == [p \in {} |-> 0]

(***************************************************************************)
(* Allocation cache                                                        *)
(***************************************************************************)
Loopback == "127.0.0.1"

\* d[k] = v on a dict
Put(d, k, v) == [x \in (DOMAIN d) \cup {k} |-> IF x = k THEN v ELSE d[x]]

\* the loop of _reload_allocations over the listed allocations, from position i
RECURSIVE ReloadLoop(_, _, _)
ReloadLoop(cache, items, i) ==
    IF i > Len(items) THEN [cache |-> cache, failed |-> FALSE]
    ELSE IF items[i].bad THEN [cache |-> cache, failed |-> TRUE]
    ELSE ReloadLoop(IF items[i].ip = Loopback
                    THEN Put(cache, items[i].port, items[i].id) ELSE cache,
                    items, i + 1)

\* _reload_allocations: answer is what list_node_allocations(node_id=1).collect()
\* gives: [ok |-> FALSE] when it raises, else [ok |-> TRUE, items |-> allocations].
\* An item with bad = TRUE lacks a key the loop reads (KeyError, caught).
_reload_allocations(cache, answer) ==
    IF ~answer.ok THEN [cache |-> cache, failed |-> TRUE]
    ELSE ReloadLoop(cache, answer.items, 1)

(***************************************************************************)
(* Egg runtime resolver                                                    *)
(***************************************************************************)
\* a or b on strings: the first non-empty one
OrElse(a, b) == IF a # <<>> THEN a ELSE b

RECURSIVE EggDefaults(_, _, _)
EggDefaults(env_map, vars_data, i) ==
    IF i > Len(vars_data) THEN env_map
    ELSE EggDefaults(IF vars_data[i].env_variable # <<>>
                     THEN Put(env_map, vars_data[i].env_variable, vars_data[i].default_value)
                     ELSE env_map,
                     vars_data, i + 1)

\* whether _get_egg_runtime answers from the overrides alone, without a request
EggFromOverrides(c) == c.DOCKER_IMAGE # Unset /\ c.STARTUP_CMD # Unset

\* _get_egg_runtime: egg is the answer of get_egg_info, [ok |-> FALSE] when it raises
_get_egg_runtime(c, egg) ==
    IF EggFromOverrides(c)
    THEN [raised |-> FALSE, docker_image |-> c.DOCKER_IMAGE,
          startup |-> c.STARTUP_CMD, env_defaults |-> EmptyMap]
    ELSE IF ~egg.ok THEN [raised |-> TRUE]
    ELSE [raised |-> FALSE,
          docker_image |-> OrElse(c.DOCKER_IMAGE, egg.docker_image),
          startup |-> OrElse(c.STARTUP_CMD, egg.startup),
          env_defaults |-> EggDefaults(EmptyMap, egg.variables, 1)]

(***************************************************************************)
(* Environment map                                                         *)
(***************************************************************************)
\* the loop over os.environ: every PANEL_ENV_<key> entry is stored under <key>
ApplyOverrides(env_map, c) ==
    [k \in (DOMAIN env_map) \cup (DOMAIN c.PANEL_ENV) |->
        IF k \in DOMAIN c.PANEL_ENV THEN c.PANEL_ENV[k] ELSE env_map[k]]

\* main._create_server: defaults, then overrides
CreateEnvMain(env_defaults, c, name) == ApplyOverrides(env_defaults, c)

\* CreateServerCommand.execute: defaults, then overrides, then SERVER_NAME
CreateEnvCommand(env_defaults, c, name) ==
    Put(ApplyOverrides(env_defaults, c), SERVER_NAME, name)

CreateEnv(impl, env_defaults, c, name) ==
    IF impl = "main" THEN CreateEnvMain(env_defaults, c, name)
    ELSE CreateEnvCommand(env_defaults, c, name)

(***************************************************************************)
(* Specification SpecIndex: the index allocator applied to a catalog.      *)
(***************************************************************************)
IndexNames ==
    { <<"M", "1">>, <<"M", "2">>, <<"M", "x">>, <<"M", "0">>, <<"M">>,
      <<"M", "1", "0">>, <<"M", "0", "1">>, <<"M", "-", "1">>, <<"I", "-", "3">> }

IndexCatalogs == UNION { [1..n -> IndexNames] : n \in 0..MaxCatalog }

IndexConfigs ==
    { [BaseConfig EXCEPT !.MAIN_PREFIX = p, !.INTERIOR_PREFIX = q] :
        p \in { Unset, <<"M">>, <<"M", "-">> }, q \in { Unset, <<"I", "-">> } }

IndexInit ==
    /\ cfg \in IndexConfigs
    /\ allocations = NoAllocations
    /\ pc = "index_call"
    /\ loc \in [kind : {"main", "interior", "both"},
                listing : {[ok |-> TRUE, items |-> c] : c \in IndexCatalogs}]
    /\ log = <<>>
    /\ out = <<>>
    /\ cache0 = NoAllocations

\* one call of _next_index_for_kind(api, kind) with the panel answering loc.listing
IndexCall ==
    /\ pc = "index_call"
    /\ LET r == _next_index_for_kind(cfg, loc.kind, loc.listing)
       IN  /\ pc' = IF r.raised THEN "index_raised" ELSE "index_ret"
           /\ loc' = [kind |-> loc.kind, listing |-> loc.listing, result |-> r]
    /\ UNCHANGED <<cfg, allocations, log, out, cache0>>

IndexNext == IndexCall

SpecIndex == IndexInit /\ [][IndexNext]_vars

(***************************************************************************)
(* C1                                                                      *)
(***************************************************************************)
Zeros(k) == [i \in 1..k |-> "0"]

\* name is P followed by the decimal numeral of n, possibly with leading zeros
IsNumbered(name, P, n) ==
    LET k == Len(name) - Len(P) - Len(str(n))
    IN  k >= 0 /\ name = P \o Zeros(k) \o str(n)

\* the values n >= 1 some listed name carries after P
NumbersAfter(items, P) ==
    UNION { { n \in 1..(10 ^ (Len(items[i]) - Len(P)) - 1) : IsNumbered(items[i], P, n) } :
            i \in { j \in DOMAIN items : Len(items[j]) > Len(P) } }

SetMax(S) == CHOOSE x \in S : \A y \in S : y <= x

\* C1: for a valid kind with a non-empty prefix P, next_index returns 1 + the
\* largest n >= 1 such that a listed name is P followed by an all-digit suffix of
\* value n, and 1 when no listed name qualifies; it does not raise.
C1_NextIndex ==
    (pc \in {"index_ret", "index_raised"}
        /\ loc.kind \in {"main", "interior"} /\ KindPrefix(cfg, loc.kind) # <<>>)
    => LET P == KindPrefix(cfg, loc.kind)
           ns == NumbersAfter(loc.listing.items, P)
       IN  /\ ~loc.result.raised
           /\ loc.result.value = (IF ns = {} THEN 1 ELSE SetMax(ns) + 1)

\* the example of the claim: names with suffixes 1, 2, x and 0 give 3
C1_Witness ==
    /\ pc = "index_ret"
    /\ loc.kind = "main" /\ cfg.MAIN_PREFIX = <<"M">>
    /\ loc.listing.items = << <<"M", "x">>, <<"M", "2">>, <<"M", "0">> >>
    /\ loc.result.value = 3

(***************************************************************************)
(* Specification Spec: the command loop of main.py, the provisioning      *)
(* workflow (main._create_server and CreateServerCommand.execute) and the *)
(* allocation cache.  Each request to the panel is one step; the panel's  *)
(* answer is drawn from a bounded set.                                    *)
(***************************************************************************)
\* the configurations tried: BaseConfig with one setting changed
Configs ==
    { BaseConfig }
    \cup { [BaseConfig EXCEPT ![n] = v] :
             n \in {"USER_ID", "MAIN_EGG_ID", "NEST_ID", "MAIN_PORT_START"},
             v \in {Unset, NotAnInt} }
    \cup { [BaseConfig EXCEPT ![n] = Unset] : n \in {"MAIN_PREFIX", "INTERIOR_PREFIX"} }
    \cup { [BaseConfig EXCEPT !.DOCKER_IMAGE = d, !.STARTUP_CMD = u] :
             d \in {Unset, <<"i", "c">>}, u \in {Unset, <<"s", "c">>} }
    \cup { [BaseConfig EXCEPT !.PANEL_ENV = ConstMap(keys, <<"o">>)] :
             keys \in { {SERVER_NAME}, {SERVER_NAME, MEMORY} } }

\* answers of list_servers: it raises, or it lists servers with these names
Catalogs ==
    { <<>>,
      << <<"M", "-", "1">> >>,
      << <<"M", "-", "1">>, <<"M", "-", "2">> >>,
      << <<"M", "-", "2">>, <<"I", "-", "1">>, <<"M", "-", "0">> >>,
      << <<"I", "-", "x">>, <<"M", "-">>, <<"I", "-", "1">> >>,
      << <<"M", "-", "0", "1">>, <<"I", "-", "1", "1">> >> }

Listings ==
    { [ok |-> FALSE] } \cup { [ok |-> TRUE, items |-> c] : c \in Catalogs }

\* answers of list_node_allocations
AllocPorts == {102, 200}
AllocIds == {7, 8}

AllocItems ==
    { [bad |-> FALSE, ip |-> Loopback, port |-> p, id |-> i] :
        p \in AllocPorts, i \in AllocIds }
    \cup { [bad |-> FALSE, ip |-> "10.0.0.1", port |-> p, id |-> 9] : p \in AllocPorts }
    \cup { [bad |-> TRUE] }

AllocAnswers ==
    { [ok |-> FALSE] }
    \cup { [ok |-> TRUE, items |-> c] : c \in UNION { [1..n -> AllocItems] : n \in 0..MaxAllocs } }

\* answers of get_egg_info
EggVariables ==
    { <<>>,
      << [env_variable |-> SERVER_NAME, default_value |-> <<"d">>],
         [env_variable |-> <<>>, default_value |-> <<"d">>],
         [env_variable |-> MEMORY, default_value |-> <<"d">>] >> }

EggAnswers ==
    { [ok |-> FALSE] }
    \cup { [ok |-> TRUE, docker_image |-> d, startup |-> u, variables |-> v] :
             d \in {Unset, <<"i", "e">>}, u \in {Unset, <<"s", "e">>}, v \in EggVariables }

\* answers of create_server: it raises, or it answers with the attributes of the
\* created server (0 stands for an attribute the answer lacks)
CreateAnswers ==
    { [ok |-> FALSE] }
    \cup { [ok |-> TRUE, id |-> 42, identifier |-> 77],
           [ok |-> TRUE, id |-> 0, identifier |-> 0] }

\* str.lower() on the words typed
lower(w) ==
    CASE w = "EXIT" -> "exit"
      [] w = "MAIN" -> "main"
      [] w = "Create_Server" -> "create_server"
      [] OTHER -> w

EOF == <<"<EOF>">>

\* the lines typed at the prompt, stripped and split into words
Lines ==
    { <<>>, <<"exit">>, <<"quit">>, <<"q">>, <<"EXIT">>, <<"exit", "now">>,
      <<"show_servers">>, <<"show_servers", "main">>, <<"show_servers", "interior">>,
      <<"show_servers", "both">>, <<"show_servers", "other">>,
      <<"create_server">>, <<"create_server", "main">>, <<"Create_Server", "MAIN">>,
      <<"create_server", "interior">>, <<"create_server", "both">>,
      <<"update_servers">>, <<"help">> }

\* the argument lists CreateServerCommand.execute is called with
CommandArgs == { <<>>, <<"main">>, <<"MAIN">>, <<"interior">>, <<"both">> }

NoLoc ==
    [line |-> <<>>, fn |-> "", impl |-> "", kind |-> "", listing |-> [ok |-> FALSE],
     next_idx |-> 0, name |-> <<>>, user_id |-> 0, egg_id |-> 0, nest_id |-> 0,
     resolved |-> FALSE, docker_image |-> <<>>, startup |-> <<>>,
     env_defaults |-> EmptyMap, server_port |-> 0, created |-> [ok |-> FALSE]]

Init ==
    /\ cfg \in Configs
    /\ allocations = NoAllocations
    /\ pc = "boot"
    /\ loc = NoLoc
    /\ log = <<>>
    /\ out = <<>>
    /\ cache0 = NoAllocations

Say(m) == out' = Append(out, m)
Request(r) == log' = Append(log, r)

\* an exception leaves the running function: main.py has no handler for it
\* (the process ends); a command object hands it to its caller
Raise == pc' = IF loc.impl = "main" THEN "crashed" ELSE "raised"

\* what a listing reports as bound to the loopback address: port -> id, the id of
\* the last item listed for the port
LoopbackListed(items) ==
    LET at(p) == { i \in DOMAIN items : items[i].ip = Loopback /\ items[i].port = p }
    IN  [p \in { items[i].port : i \in { j \in DOMAIN items : items[j].ip = Loopback } } |->
            items[CHOOSE i \in at(p) : \A j \in at(p) : j <= i].id]

\* _reload_allocations(api), the panel answering with answer
Reload(answer) ==
    LET r == _reload_allocations(allocations, answer)
    IN  /\ allocations' = r.cache
        /\ Request([op |-> "list_node_allocations", failed |-> r.failed,
                    listed |-> IF r.failed THEN NoAllocations
                               ELSE LoopbackListed(answer.items)])
        /\ IF r.failed THEN Say([msg |-> "Failed to load allocations"]) ELSE out' = out

\* __main__: the reload before the loop starts
Boot ==
    /\ pc = "boot"
    /\ \E answer \in AllocAnswers : Reload(answer)
    /\ pc' = "prompt"
    /\ UNCHANGED <<cfg, loc, cache0>>

\* the start of create_server with the first argument word given
BeginCreate(start, kindWord) ==
    LET kind == lower(kindWord)
    IN  /\ loc' = [start EXCEPT !.fn = "create_server", !.kind = kind]
        /\ IF kind \notin {"main", "interior"}
           THEN pc' = "returned" /\ out' = <<[msg |-> "Usage: create_server"]>>
           ELSE pc' = "cs_naming" /\ out' = <<>>

\* _handle_command(api, line), up to the first request of the command
HandleLine(line) ==
    LET start == [NoLoc EXCEPT !.line = line, !.impl = "main"]
        cmd == IF line = <<>> THEN "" ELSE lower(line[1])
        args == IF line = <<>> THEN <<>> ELSE Tail(line)
    IN  /\ log' = <<>>
        /\ cache0' = allocations
        /\ IF line = <<>>
           THEN pc' = "returned" /\ loc' = start /\ out' = <<>>
           ELSE IF Len(line) = 1 /\ cmd \in {"exit", "quit", "q"}
           THEN pc' = "exited" /\ loc' = start /\ out' = <<>>
           ELSE IF cmd = "show_servers"
           THEN LET kind == IF args = <<>> THEN "None" ELSE lower(args[1])
                IN  /\ loc' = [start EXCEPT !.fn = "show_servers", !.kind = kind]
                    /\ IF kind \notin {"None", "main", "interior", "both"}
                       THEN pc' = "returned" /\ out' = <<[msg |-> "Usage: show_servers"]>>
                       ELSE pc' = "ss_list" /\ out' = <<>>
           ELSE IF cmd = "create_server"
           THEN IF args = <<>>
                THEN /\ pc' = "returned"
                     /\ loc' = [start EXCEPT !.fn = "create_server"]
                     /\ out' = <<[msg |-> "Usage: create_server"]>>
                ELSE BeginCreate(start, args[1])
           ELSE /\ pc' = "returned"
                /\ loc' = [start EXCEPT !.fn = "unknown"]
                /\ out' = <<[msg |-> "Unknown command"], [msg |-> "Available"]>>

\* the loop of __main__: read_command, then _handle_command
ReadCommand ==
    /\ pc = "prompt"
    /\ \/ \E line \in Lines : HandleLine(line)
       \/ /\ pc' = "exited"           \* EOFError / KeyboardInterrupt
          /\ loc' = [NoLoc EXCEPT !.line = EOF, !.impl = "main"]
          /\ log' = <<>> /\ out' = <<>> /\ cache0' = allocations
    /\ UNCHANGED <<cfg, allocations>>

\* CreateServerCommand.execute(api, args), up to its first request
ExecuteCreateServerCommand ==
    /\ pc = "prompt"
    /\ \E args \in CommandArgs :
         LET start == [NoLoc EXCEPT !.line = <<"create_server">> \o args,
                                    !.impl = "commands"]
         IN  /\ log' = <<>>
             /\ cache0' = allocations
             /\ IF args = <<>>
                THEN /\ pc' = "returned"
                     /\ loc' = [start EXCEPT !.fn = "create_server"]
                     /\ out' = <<[msg |-> "Usage: create_server"]>>
                ELSE BeginCreate(start, args[1])
    /\ UNCHANGED <<cfg, allocations>>

(***************************************************************************)
(* show_servers                                                            *)
(***************************************************************************)
\* variant: the suffix 0 is accepted
_matches_prefix_with_index_zero_ok(name, prefix) ==
    /\ prefix # <<>>
    /\ startswith(name, prefix)
    /\ isdigit(StripPrefix(name, prefix))

_matches_prefix_with_index(name, prefix) ==
    /\ prefix # <<>>
    /\ startswith(name, prefix)
    /\ LET suffix == StripPrefix(name, prefix)
       IN  isdigit(suffix) /\ int(suffix) >= 1

matches(c, kind, name) ==
    IF kind \in {"None", "both"}
    THEN \/ _matches_prefix_with_index(name, c.MAIN_PREFIX)
         \/ _matches_prefix_with_index(name, c.INTERIOR_PREFIX)
    ELSE IF kind = "main" THEN _matches_prefix_with_index(name, c.MAIN_PREFIX)
    ELSE IF kind = "interior" THEN _matches_prefix_with_index(name, c.INTERIOR_PREFIX)
    ELSE FALSE

\* _show_servers from its list_servers request on
SsList ==
    /\ pc = "ss_list"
    /\ \E listing \in Listings :
         /\ Request([op |-> "list_servers"])
         /\ loc' = [loc EXCEPT !.listing = listing]
         /\ IF ~listing.ok
            THEN Raise /\ out' = out
            ELSE /\ pc' = "returned"
                 /\ Say([msg |-> "count",
                         n |-> Cardinality({ i \in DOMAIN listing.items :
                                               matches(cfg, loc.kind, listing.items[i]) })])
    /\ UNCHANGED <<cfg, allocations, cache0>>

(***************************************************************************)
(* Provisioning workflow                                                   *)
(***************************************************************************)
\* variant: only the docker image is tested
RuntimeUnresolved_image_only(docker_image, startup) == docker_image = <<>>

\* not docker_image or not startup
RuntimeUnresolved(docker_image, startup) == docker_image = <<>> \/ startup = <<>>

\* variant: the index is not turned into an offset
ServerPort_off_by_one(port_start, next_idx) == port_start + next_idx

\* server_port = port_start + next_idx - 1
ServerPort(port_start, next_idx) == port_start + next_idx - 1

ForKind(kind, mainName, interiorName) ==
    IF kind = "main" THEN mainName ELSE interiorName

limits == [memory |-> 7000, swap |-> 500, disk |-> 5000, io |-> 500, cpu |-> 100]

\* Naming: next index, name, and the required integer settings
CsNaming ==
    /\ pc = "cs_naming"
    /\ \E listing \in Listings :
         LET r == _next_index_for_kind(cfg, loc.kind, listing)
             user == _parse_int_env(cfg, "USER_ID")
             egg == _parse_int_env(cfg, ForKind(loc.kind, "MAIN_EGG_ID", "INTERIOR_EGG_ID"))
             nest == _parse_int_env(cfg, "NEST_ID")
         IN  IF r.raised
             THEN /\ Raise
                  /\ log' = IF r.why = "api" THEN Append(log, [op |-> "list_servers"]) ELSE log
                  /\ loc' = loc
             ELSE /\ Request([op |-> "list_servers"])
                  /\ IF user.raised \/ egg.raised \/ nest.raised
                     THEN /\ Raise
                          /\ loc' = [loc EXCEPT !.listing = listing, !.next_idx = r.value,
                                        !.name = KindPrefix(cfg, loc.kind) \o str(r.value)]
                     ELSE /\ pc' = "cs_runtime"
                          /\ loc' = [loc EXCEPT !.listing = listing, !.next_idx = r.value,
                                        !.name = KindPrefix(cfg, loc.kind) \o str(r.value),
                                        !.user_id = user.value, !.egg_id = egg.value,
                                        !.nest_id = nest.value]
    /\ UNCHANGED <<cfg, allocations, out, cache0>>

\* RuntimeResolution, then the port of the new server
CsRuntime ==
    /\ pc = "cs_runtime"
    /\ \E egg \in EggAnswers :
         LET rt == _get_egg_runtime(cfg, egg)
             ps == _parse_int_env(cfg, ForKind(loc.kind, "MAIN_PORT_START",
                                                "INTERIOR_PORT_START"))
         IN  /\ log' = IF EggFromOverrides(cfg) THEN log
                       ELSE Append(log, [op |-> "get_egg_info", nest_id |-> loc.nest_id,
                                         egg_id |-> loc.egg_id])
             /\ IF rt.raised
                THEN Raise /\ loc' = loc /\ out' = out
                ELSE LET got == [loc EXCEPT !.resolved = TRUE,
                                           !.docker_image = rt.docker_image,
                                           !.startup = rt.startup,
                                           !.env_defaults = rt.env_defaults]
                     IN  IF RuntimeUnresolved(rt.docker_image, rt.startup)
                         THEN /\ pc' = "returned"
                              /\ loc' = got
                              /\ Say([msg |-> "Cannot determine docker image/startup"])
                         ELSE IF ps.raised
                         THEN /\ pc' = "returned"
                              /\ loc' = got
                              /\ Say([msg |-> "Cannot determine port start"])
                         ELSE LET server_port == ServerPort(ps.value, loc.next_idx)
                              IN  /\ loc' = [got EXCEPT !.server_port = server_port]
                                  /\ IF server_port \in DOMAIN allocations
                                     THEN pc' = "cs_submit" /\ out' = out
                                     ELSE /\ pc' = "cs_alloc"
                                          /\ Say([msg |-> "Creating allocation",
                                                  port |-> server_port])
    /\ UNCHANGED <<cfg, allocations, cache0>>

\* variant: the cache is not reloaded after the allocation was created
CsAlloc_no_reload ==
    /\ pc = "cs_alloc"
    /\ Request([op |-> "create_allocations", node_id |-> 1, ip |-> Loopback,
                ports |-> << str(loc.server_port) >>])
    /\ \E ok \in BOOLEAN :
         IF ok THEN pc' = "cs_submit" /\ out' = out
         ELSE pc' = "returned" /\ Say([msg |-> "Failed to create allocation"])
    /\ UNCHANGED <<cfg, allocations, loc, cache0>>

\* AllocationEnsure: the request for a new allocation
CsAlloc ==
    /\ pc = "cs_alloc"
    /\ Request([op |-> "create_allocations", node_id |-> 1, ip |-> Loopback,
                ports |-> << str(loc.server_port) >>])
    /\ \E ok \in BOOLEAN :
         IF ok THEN pc' = "cs_reload" /\ out' = out
         ELSE pc' = "returned" /\ Say([msg |-> "Failed to create allocation"])
    /\ UNCHANGED <<cfg, allocations, loc, cache0>>

\* AllocationEnsure: the reload after the allocation was created
CsReload ==
    /\ pc = "cs_reload"
    /\ \E answer \in AllocAnswers : Reload(answer)
    /\ pc' = "cs_submit"
    /\ UNCHANGED <<cfg, loc, cache0>>

\* the console report of a created server
Report(impl, name, answer) ==
    IF impl = "main"
    THEN << [msg |-> "Created server", name |-> name, id |-> answer.id] >>
    ELSE IF answer.identifier = 0
    THEN << [msg |-> "Failed to get server identifier"] >>
    ELSE << [msg |-> "Created server", name |-> name, id |-> answer.id,
             identifier |-> answer.identifier] >>

\* variant: a failed creation takes the port out of the cache again
CsSubmit_rollback ==
    /\ pc = "cs_submit"
    /\ pc' = "returned"
    /\ IF loc.server_port \notin DOMAIN allocations
       THEN /\ log' = log
            /\ loc' = loc
            /\ allocations' = allocations
            /\ Say([msg |-> "Failed to create server"])
       ELSE \E answer \in CreateAnswers :
              /\ Request([op |-> "create_server", name |-> loc.name,
                          user_id |-> loc.user_id, nest_id |-> loc.nest_id,
                          egg_id |-> loc.egg_id,
                          environment |-> CreateEnv(loc.impl, loc.env_defaults, cfg, loc.name),
                          limits |-> limits, database_limit |-> 0, backup_limit |-> 0,
                          allocation_limit |-> 1, start_on_completion |-> TRUE,
                          default_allocation |-> allocations[loc.server_port]])
              /\ loc' = [loc EXCEPT !.created = answer]
              /\ IF answer.ok
                 THEN /\ out' = out \o Report(loc.impl, loc.name, answer)
                      /\ allocations' = allocations
                 ELSE /\ Say([msg |-> "Failed to create server"])
                      /\ allocations' = [q \in (DOMAIN allocations) \ {loc.server_port} |->
                                            allocations[q]]
    /\ UNCHANGED <<cfg, cache0>>

\* variant: a port missing from the cache is submitted without an allocation
CsSubmit_unchecked ==
    /\ pc = "cs_submit"
    /\ pc' = "returned"
    /\ \E answer \in CreateAnswers :
         /\ Request([op |-> "create_server", name |-> loc.name,
                     user_id |-> loc.user_id, nest_id |-> loc.nest_id,
                     egg_id |-> loc.egg_id,
                     environment |-> CreateEnv(loc.impl, loc.env_defaults, cfg, loc.name),
                     limits |-> limits, database_limit |-> 0, backup_limit |-> 0,
                     allocation_limit |-> 1, start_on_completion |-> TRUE,
                     default_allocation |-> IF loc.server_port \in DOMAIN allocations
                                            THEN allocations[loc.server_port] ELSE 0])
         /\ loc' = [loc EXCEPT !.created = answer]
         /\ IF answer.ok
            THEN out' = out \o Report(loc.impl, loc.name, answer)
            ELSE Say([msg |-> "Failed to create server"])
    /\ UNCHANGED <<cfg, allocations, cache0>>

\* EnvironmentMerge, Submit and Report
CsSubmit ==
    /\ pc = "cs_submit"
    /\ pc' = "returned"
    /\ IF loc.server_port \notin DOMAIN allocations
       THEN /\ log' = log          \* allocations[server_port] raises KeyError
            /\ loc' = loc
            /\ Say([msg |-> "Failed to create server"])
       ELSE \E answer \in CreateAnswers :
              /\ Request([op |-> "create_server", name |-> loc.name,
                          user_id |-> loc.user_id, nest_id |-> loc.nest_id,
                          egg_id |-> loc.egg_id,
                          environment |-> CreateEnv(loc.impl, loc.env_defaults, cfg, loc.name),
                          limits |-> limits, database_limit |-> 0, backup_limit |-> 0,
                          allocation_limit |-> 1, start_on_completion |-> TRUE,
                          default_allocation |-> allocations[loc.server_port]])
              /\ loc' = [loc EXCEPT !.created = answer]
              /\ IF answer.ok
                 THEN out' = out \o Report(loc.impl, loc.name, answer)
                 ELSE Say([msg |-> "Failed to create server"])
    /\ UNCHANGED <<cfg, allocations, cache0>>

\* _handle_command has returned True (or the command object has returned): the
\* locals are gone and the loop reads the next line
LoopAgain ==
    /\ pc = "returned"
    /\ pc' = "prompt"
    /\ loc' = NoLoc
    /\ log' = <<>>
    /\ out' = <<>>
    /\ cache0' = allocations
    /\ UNCHANGED <<cfg, allocations>>

Next ==
    \/ Boot
    \/ LoopAgain
    \/ ReadCommand
    \/ ExecuteCreateServerCommand
    \/ SsList
    \/ CsNaming
    \/ CsRuntime
    \/ CsAlloc
    \/ CsReload
    \/ CsSubmit

Spec == Init /\ [][Next]_vars

(***************************************************************************)
(* Specification SpecUpdate: one run of UpdateServersCommand.execute.      *)
(***************************************************************************)
JAR == <<"J", "A">>              \* an environment key with an override

\* name.split("-", 1): the part after the first hyphen, None when there is none
AfterHyphen(name) ==
    LET at == { i \in DOMAIN name : name[i] = "-" }
    IN  IF at = {} THEN None
        ELSE Some(SubSeq(name, (CHOOSE i \in at : \A j \in at : i <= j) + 1, Len(name)))

\* _matches_prefix of UpdateServersCommand.execute
_matches_prefix(c, name) ==
    IF ~startswith(name, c.MAIN_PREFIX) /\ ~startswith(name, c.INTERIOR_PREFIX)
    THEN FALSE
    ELSE LET parts == AfterHyphen(name)
         IN  IF parts = None THEN FALSE
             ELSE isdigit(TheVal(parts)) /\ int(TheVal(parts)) >= 1

\* the filter on the listed servers; none when neither prefix is configured
RECURSIVE FilterServers(_, _, _)
FilterServers(c, servers, i) ==
    IF i > Len(servers) THEN <<>>
    ELSE (IF _matches_prefix(c, servers[i].name) THEN <<servers[i]>> ELSE <<>>)
         \o FilterServers(c, servers, i + 1)

SelectServers(c, servers) ==
    IF c.MAIN_PREFIX # <<>> \/ c.INTERIOR_PREFIX # <<>>
    THEN FilterServers(c, servers, 1)
    ELSE servers

\* _build_env_map(api, server_info)
_build_env_map(c, server_info) ==
    LET server_name == OrElse(server_info.name, OrElse(server_info.uuid, <<"u", "n", "k">>))
    IN  Put(ApplyOverrides(server_info.environment, c), SERVER_NAME, server_name)

UpdateConfigs ==
    { [BaseConfig EXCEPT !.MAIN_PREFIX = p, !.INTERIOR_PREFIX = q,
                         !.PANEL_ENV = ConstMap({SERVER_NAME, JAR}, <<"o">>)] :
        p \in { Unset, <<"M", "-">> }, q \in { Unset, <<"I", "-">> } }

\* the records list_servers answers with (id 0: the record has no id)
ServerRecords ==
    { [id |-> 1, name |-> <<"M", "-", "1">>, egg |-> 15],
      [id |-> 2, name |-> <<"I", "-", "2">>, egg |-> 16],
      [id |-> 3, name |-> <<"X", "-", "3">>, egg |-> 15],
      [id |-> 0, name |-> <<"M", "-", "4">>, egg |-> 15],
      [id |-> 5, name |-> <<"M", "-", "0", "5">>, egg |-> 15] }

\* lists of distinct records
ServerLists ==
    { c \in UNION { [1..n -> ServerRecords] : n \in 0..MaxServers } :
        \A i, j \in DOMAIN c : i # j => c[i] # c[j] }

\* answers of get_server_info: it raises, or it gives the attributes of the server
DetailAnswers(entry) ==
    { [ok |-> FALSE] }
    \cup { [ok |-> TRUE,
            info |-> [name |-> n, uuid |-> <<"u">> \o str(entry.id),
                      environment |-> ConstMap({SERVER_NAME, JAR, MEMORY}, <<"c">>)]] :
             n \in { entry.name, <<>> } }

UpdateInit ==
    /\ cfg \in UpdateConfigs
    /\ allocations = NoAllocations
    /\ pc = "us_list"
    /\ loc = [fn |-> "update_servers", servers |-> <<>>, i |-> 1, failed |-> {},
              server_info |-> [name |-> <<>>, uuid |-> <<>>, environment |-> EmptyMap]]
    /\ log = <<>>
    /\ out = <<>>
    /\ cache0 = NoAllocations

\* the list_servers request and the prefix filter
UsList ==
    /\ pc = "us_list"
    /\ Request([op |-> "list_servers"])
    /\ \/ /\ pc' = "us_returned"
          /\ Say([msg |-> "Failed to list servers"])
          /\ loc' = loc
       \/ \E servers \in ServerLists :
            LET selected == SelectServers(cfg, servers)
            IN  /\ loc' = [loc EXCEPT !.servers = selected]
                /\ IF selected = <<>>
                   THEN pc' = "us_returned" /\ Say([msg |-> "No servers found."])
                   ELSE pc' = "us_next" /\ Say([msg |-> "Found servers", n |-> Len(selected)])
    /\ UNCHANGED <<cfg, allocations, cache0>>

\* variant: a record without an id is processed like any other
UsNext_no_skip ==
    /\ pc = "us_next"
    /\ IF loc.i > Len(loc.servers)
       THEN /\ pc' = "us_returned"
            /\ Say([msg |-> "All servers processed."])
            /\ loc' = loc
       ELSE /\ pc' = "us_detail"
            /\ out' = out
            /\ loc' = loc
    /\ UNCHANGED <<cfg, allocations, log, cache0>>

\* the head of the loop over the selected servers
UsNext ==
    /\ pc = "us_next"
    /\ IF loc.i > Len(loc.servers)
       THEN /\ pc' = "us_returned"
            /\ Say([msg |-> "All servers processed."])
            /\ loc' = loc
       ELSE IF loc.servers[loc.i].id = 0
       THEN /\ pc' = "us_next"
            /\ Say([msg |-> "Skipping server with missing id"])
            /\ loc' = [loc EXCEPT !.i = loc.i + 1]
       ELSE /\ pc' = "us_detail"
            /\ out' = out
            /\ loc' = loc
    /\ UNCHANGED <<cfg, allocations, log, cache0>>

\* variant: a failed detail fetch ends the loop
UsDetail_abort ==
    /\ pc = "us_detail"
    /\ LET entry == loc.servers[loc.i]
       IN  /\ Request([op |-> "get_server_info", server_id |-> entry.id])
           /\ \E answer \in DetailAnswers(entry) :
                IF answer.ok
                THEN /\ pc' = "us_update"
                     /\ loc' = [loc EXCEPT !.server_info = answer.info]
                     /\ Say([msg |-> "Updating startup/env", name |-> entry.name,
                             egg |-> entry.egg])
                ELSE /\ pc' = "us_returned"
                     /\ loc' = [loc EXCEPT !.failed = @ \cup {loc.i}]
                     /\ Say([msg |-> "Failed to fetch detailed info", name |-> entry.name])
    /\ UNCHANGED <<cfg, allocations, cache0>>

\* the detail fetch of the server at position i
UsDetail ==
    /\ pc = "us_detail"
    /\ LET entry == loc.servers[loc.i]
       IN  /\ Request([op |-> "get_server_info", server_id |-> entry.id])
           /\ \E answer \in DetailAnswers(entry) :
                IF answer.ok
                THEN /\ pc' = "us_update"
                     /\ loc' = [loc EXCEPT !.server_info = answer.info]
                     /\ Say([msg |-> "Updating startup/env", name |-> entry.name,
                             egg |-> entry.egg])
                ELSE /\ pc' = "us_next"
                     /\ loc' = [loc EXCEPT !.i = loc.i + 1, !.failed = @ \cup {loc.i}]
                     /\ Say([msg |-> "Failed to fetch detailed info", name |-> entry.name])
    /\ UNCHANGED <<cfg, allocations, cache0>>

\* the startup/environment update of the server at position i
UsUpdate ==
    /\ pc = "us_update"
    /\ LET entry == loc.servers[loc.i]
       IN  /\ Request([op |-> "update_server_startup", server_id |-> entry.id,
                       egg_id |-> entry.egg,
                       environment |-> _build_env_map(cfg, loc.server_info),
                       skip_scripts |-> FALSE])
           /\ \E ok \in BOOLEAN :
                IF ok
                THEN /\ pc' = "us_reinstall"
                     /\ loc' = loc
                     /\ Say([msg |-> "Startup/environment updated", name |-> entry.name])
                ELSE /\ pc' = "us_next"
                     /\ loc' = [loc EXCEPT !.i = loc.i + 1, !.failed = @ \cup {loc.i}]
                     /\ Say([msg |-> "Failed to update/reinstall", name |-> entry.name])
    /\ UNCHANGED <<cfg, allocations, cache0>>

\* the reinstall request of the server at position i
UsReinstall ==
    /\ pc = "us_reinstall"
    /\ pc' = "us_next"
    /\ LET entry == loc.servers[loc.i]
       IN  /\ Request([op |-> "reinstall_server", server_id |-> entry.id])
           /\ \E ok \in BOOLEAN :
                IF ok
                THEN /\ loc' = [loc EXCEPT !.i = loc.i + 1]
                     /\ Say([msg |-> "Reinstall requested", name |-> entry.name])
                ELSE /\ loc' = [loc EXCEPT !.i = loc.i + 1, !.failed = @ \cup {loc.i}]
                     /\ Say([msg |-> "Failed to update/reinstall", name |-> entry.name])
    /\ UNCHANGED <<cfg, allocations, cache0>>

UpdateNext ==
    \/ UsList
    \/ UsNext
    \/ UsDetail
    \/ UsUpdate
    \/ UsReinstall

SpecUpdate == UpdateInit /\ [][UpdateNext]_vars

(***************************************************************************)
(* Specification SpecRuns: provisioning runs in a row against one panel.   *)
(* A server the panel created is listed in every later run; servers of     *)
(* other origin come and go between the runs.                              *)
(***************************************************************************)
\* what the panel lists besides the servers created by the runs
OtherServers ==
    { <<>>,
      << <<"M", "-", "2">> >>,
      << <<"I", "-", "1">>, <<"M", "-", "x">> >>,
      << <<"M", "-", "0", "4">>, <<"I", "-", "0">> >> }

RunsInit ==
    /\ cfg = BaseConfig
    /\ allocations = NoAllocations
    /\ pc = "rn_idle"
    /\ loc = [fn |-> "runs", runs |-> 0, made |-> <<>>, kind |-> "", listing |-> <<>>,
              next_idx |-> 0, name |-> <<>>, server_port |-> 0]
    /\ log = <<>>
    /\ out = <<>>
    /\ cache0 = NoAllocations

\* the names of the servers created so far, in the order of their creation
RECURSIVE MadeNames(_, _)
MadeNames(made, i) ==
    IF i > Len(made) THEN <<>> ELSE <<made[i].name>> \o MadeNames(made, i + 1)

\* Naming of one run: list_servers, next index, name and port
RnNaming ==
    /\ pc = "rn_idle"
    /\ loc.runs < MaxRuns
    /\ \E kind \in {"main", "interior"}, others \in OtherServers, ok \in BOOLEAN :
         LET items == others \o MadeNames(loc.made, 1)
             r == _next_index_for_kind(cfg, kind,
                     IF ok THEN [ok |-> TRUE, items |-> items] ELSE [ok |-> FALSE])
             ps == _parse_int_env(cfg, ForKind(kind, "MAIN_PORT_START", "INTERIOR_PORT_START"))
         IN  /\ log' = <<[op |-> "list_servers"]>>
             /\ IF r.raised \/ ps.raised
                THEN /\ pc' = "rn_idle"
                     /\ loc' = [loc EXCEPT !.runs = loc.runs + 1, !.kind = kind,
                                           !.listing = <<>>, !.next_idx = 0,
                                           !.name = <<>>, !.server_port = 0]
                ELSE /\ pc' = "rn_named"
                     /\ loc' = [loc EXCEPT !.runs = loc.runs + 1, !.kind = kind,
                                           !.listing = items, !.next_idx = r.value,
                                           !.name = KindPrefix(cfg, kind) \o str(r.value),
                                           !.server_port = ServerPort(ps.value, r.value)]
    /\ UNCHANGED <<cfg, allocations, out, cache0>>

\* the rest of the run: it stops before the creation request, or the request is
\* sent and the panel refuses or creates the server
RnSubmit ==
    /\ pc = "rn_named"
    /\ pc' = "rn_idle"
    /\ \/ /\ UNCHANGED <<loc, log>>
       \/ /\ Request([op |-> "create_server", name |-> loc.name])
          /\ \/ loc' = loc
             \/ loc' = [loc EXCEPT !.made = Append(loc.made,
                                      [kind |-> loc.kind, idx |-> loc.next_idx,
                                       name |-> loc.name, port |-> loc.server_port])]
    /\ UNCHANGED <<cfg, allocations, out, cache0>>

RunsNext ==
    \/ RnNaming
    \/ RnSubmit

SpecRuns == RunsInit /\ [][RunsNext]_vars

(***************************************************************************)
(* Specification SpecUpload: one run of _upload_jar_with_retry, the        *)
(* background thread of the artifact upload.  Every request returns (with  *)
(* a status or an error), so the thread always takes its next step.        *)
(***************************************************************************)
DefaultMaxAttempts == 6
RetryDelay == 5

\* answers of the files/write request
WriteAnswers ==
    { [raised |-> TRUE, status_code |-> 0],
      [raised |-> FALSE, status_code |-> 204],
      [raised |-> FALSE, status_code |-> 500] }

\* variant: any answer counts as an upload
Uploaded_any_status(answer) == ~answer.raised

\* response.status_code == 204
Uploaded(answer) == ~answer.raised /\ answer.status_code = 204

\* variant: one attempt too many
RetryLeft_one_more(attempt, max_attempts) == attempt <= max_attempts

\* attempt < max_attempts
RetryLeft(attempt, max_attempts) == attempt < max_attempts

GiveUp ==
    << [msg |-> "Failed to upload after max_attempts attempts"],
       [msg |-> "Server created but JAR not uploaded. Upload manually"] >>

UploadInit ==
    /\ cfg = BaseConfig
    /\ allocations = NoAllocations
    /\ pc = "up_begin"
    /\ loc \in [fn : {"upload"}, max_attempts : 0..DefaultMaxAttempts, attempt : {1}]
    /\ log = <<>>
    /\ out = <<>>
    /\ cache0 = NoAllocations

\* for attempt in range(1, max_attempts + 1): the loop is entered, or it is empty
UpBegin ==
    /\ pc = "up_begin"
    /\ IF loc.attempt <= loc.max_attempts
       THEN pc' = "up_attempt" /\ out' = out
       ELSE pc' = "up_done" /\ out' = out \o GiveUp
    /\ UNCHANGED <<cfg, allocations, loc, log, cache0>>

\* one upload attempt: the files/write request and what follows its answer
UpAttempt ==
    /\ pc = "up_attempt"
    /\ \E answer \in WriteAnswers :
         /\ Request([op |-> "files/write", attempt |-> loc.attempt, answer |-> answer])
         /\ IF Uploaded(answer)
            THEN /\ pc' = "up_start"
                 /\ out' = out \o << [msg |-> "Upload attempt", attempt |-> loc.attempt],
                                     [msg |-> "Successfully uploaded"],
                                     [msg |-> "Starting server..."] >>
            ELSE IF RetryLeft(loc.attempt, loc.max_attempts)
            THEN /\ pc' = "up_sleep"
                 /\ out' = out \o << [msg |-> "Upload attempt", attempt |-> loc.attempt],
                                     [msg |-> "Upload attempt failed", attempt |-> loc.attempt],
                                     [msg |-> "Retrying in 5 seconds..."] >>
            ELSE /\ pc' = "up_done"
                 /\ out' = out \o << [msg |-> "Upload attempt", attempt |-> loc.attempt],
                                     [msg |-> "Upload attempt failed", attempt |-> loc.attempt] >>
                               \o GiveUp
    /\ UNCHANGED <<cfg, allocations, loc, cache0>>

\* time.sleep(5), then the next attempt
UpSleep ==
    /\ pc = "up_sleep"
    /\ pc' = "up_attempt"
    /\ Request([op |-> "sleep", seconds |-> RetryDelay])
    /\ loc' = [loc EXCEPT !.attempt = loc.attempt + 1]
    /\ UNCHANGED <<cfg, allocations, out, cache0>>

\* the start of the server after the upload, then return
UpStart ==
    /\ pc = "up_start"
    /\ pc' = "up_done"
    /\ \/ /\ Request([op |-> "power", action |-> "start", ok |-> TRUE])
          /\ Say([msg |-> "Server is starting!"])
       \/ /\ Request([op |-> "power", action |-> "start", ok |-> FALSE])
          /\ Say([msg |-> "Failed to start server"])
       \/ /\ log' = log            \* PterodactylClient(...) raises: nothing is sent
          /\ Say([msg |-> "Failed to start server"])
    /\ UNCHANGED <<cfg, allocations, loc, cache0>>

UploadNext ==
    \/ UpBegin
    \/ UpAttempt
    \/ UpSleep
    \/ UpStart

SpecUpload == UploadInit /\ [][UploadNext]_vars /\ WF_vars(UploadNext)

(***************************************************************************)
(* Claims about the provisioning workflow and the command loop (Spec)      *)
(***************************************************************************)
\* positions in the log of the requests of one kind
Sent(op) == { i \in DOMAIN log : log[i].op = op }

\* messages on the console
Said == { out[i].msg : i \in DOMAIN out }

\* the running (or just returned) command is create_server and has computed its port
PortComputed == loc.fn = "create_server" /\ loc.server_port # 0

\* C2: once the port is computed, an allocation-creation request is sent if and
\* only if the port is not a key of the cache at that moment; the request names
\* exactly that port; a reload follows the request and precedes the cache lookup
\* of the submit step; with the port in the cache neither request nor reload is
\* issued.
C2_AllocationEnsure ==
    PortComputed =>
        LET A == Sent("create_allocations")
            R == Sent("list_node_allocations")
            C == Sent("create_server")
        IN  /\ pc # "cs_alloc" => ((A # {}) <=> (loc.server_port \notin DOMAIN cache0))
            /\ Cardinality(A) <= 1
            /\ \A i \in A : /\ Len(log[i].ports) = 1
                            /\ isdigit(log[i].ports[1])
                            /\ int(log[i].ports[1]) = loc.server_port
            /\ (A # {} /\ (pc = "cs_submit" \/ C # {} \/ "Failed to create server" \in Said))
                   => \E k \in R : (\A i \in A : i < k) /\ (\A j \in C : k < j)
            /\ loc.server_port \in DOMAIN cache0 => (A = {} /\ R = {})

\* an allocation was requested, the cache reloaded and the server created
C2_Witness ==
    /\ PortComputed /\ pc = "returned"
    /\ Sent("create_allocations") # {} /\ Sent("create_server") # {}
    /\ cache0 # NoAllocations

\* C3: after a reload that completes without error the cache equals exactly the
\* mapping port -> id of the loopback-bound allocations reported in that reload.
C3_ReloadRebuilds ==
    \A i \in DOMAIN log :
        (i = Len(log) /\ log[i].op = "list_node_allocations" /\ ~log[i].failed)
            => allocations = log[i].listed

\* the port-range start configured for the kind
PortStart == int(cfg[ForKind(loc.kind, "MAIN_PORT_START", "INTERIOR_PORT_START")])

\* the largest valid numeric suffix among the listed names with the kind's prefix
ListedMax ==
    LET ns == NumbersAfter(loc.listing.items, KindPrefix(cfg, loc.kind))
    IN  IF ns = {} THEN 0 ELSE SetMax(ns)

\* C4: with m the largest valid numeric suffix listed for the kind's prefix P and
\* S the kind's port-range start, the allocation request (if any) is for port
\* S + m, the creation request carries the name P followed by m + 1 and the
\* allocation id the cache maps S + m to, and a successful creation whose answer
\* carries the identifier is reported with it.
C4_Provisioning ==
    (Sent("create_allocations") # {} \/ Sent("create_server") # {}) =>
        LET m == ListedMax
            port == PortStart + m
        IN  /\ \A i \in Sent("create_allocations") : log[i].ports = << str(port) >>
            /\ \A i \in Sent("create_server") :
                  /\ log[i].name = KindPrefix(cfg, loc.kind) \o str(m + 1)
                  /\ port \in DOMAIN allocations
                  /\ log[i].default_allocation = allocations[port]
                  /\ (pc = "returned" /\ loc.created.ok /\ loc.created.id # 0)
                        => \E j \in DOMAIN out :
                               /\ out[j].msg = "Created server"
                               /\ out[j].name = log[i].name
                               /\ out[j].id = loc.created.id

\* the example of the claim: M-1 and M-2 exist, M-3 is created on port S + 2
C4_Witness ==
    /\ pc = "returned" /\ loc.kind = "main"
    /\ loc.listing.items = << <<"M", "-", "1">>, <<"M", "-", "2">> >>
    /\ \E i \in Sent("create_server") : log[i].name = <<"M", "-", "3">>
    /\ \E i \in Sent("create_allocations") : log[i].ports = << <<"1", "0", "2">> >>
    /\ "Created server" \in Said

\* C5 (creation requests): SERVER_NAME holds the server's name, every other key
\* with a PANEL_ENV_ override holds the override, and the remaining keys hold the
\* egg default.
C5_CreateEnvLayers ==
    \A i \in Sent("create_server") :
        LET env == log[i].environment
        IN  /\ SERVER_NAME \in DOMAIN env
            /\ env[SERVER_NAME] = log[i].name
            /\ \A k \in (DOMAIN cfg.PANEL_ENV) \ {SERVER_NAME} :
                  k \in DOMAIN env /\ env[k] = cfg.PANEL_ENV[k]
            /\ \A k \in (DOMAIN loc.env_defaults) \ ((DOMAIN cfg.PANEL_ENV) \cup {SERVER_NAME}) :
                  k \in DOMAIN env /\ env[k] = loc.env_defaults[k]

\* C6: the loop ends only on exit/quit/q or end of input, never because a
\* command failed.
C6_LoopSurvivesErrors ==
    pc \in {"exited", "crashed"}
        => \/ loc.line = EOF
           \/ Len(loc.line) = 1 /\ lower(loc.line[1]) \in {"exit", "quit", "q"}

\* C10: when the docker image or the startup command is still empty after the
\* egg runtime resolution, provisioning reports the error and stops, having sent
\* no allocation-creation and no server-creation request and with the cache as
\* it was.
C10_UnresolvedRuntimeAborts ==
    (loc.fn = "create_server" /\ loc.resolved
        /\ (loc.docker_image = <<>> \/ loc.startup = <<>>))
    => /\ pc = "returned"
       /\ out # <<>> /\ out[Len(out)].msg = "Cannot determine docker image/startup"
       /\ Sent("create_allocations") = {} /\ Sent("create_server") = {}
       /\ allocations = cache0

\* the image came from DOCKER_IMAGE, the egg gave no startup command, and the
\* port was not in the cache
C10_Witness ==
    /\ loc.fn = "create_server" /\ loc.resolved /\ pc = "returned"
    /\ loc.docker_image # <<>> /\ loc.startup = <<>>
    /\ cfg.DOCKER_IMAGE # Unset
    /\ ~(102 \in DOMAIN allocations)

\* a line was typed at the prompt of main.py and handed to _handle_command
Typed == loc.impl = "main" /\ loc.line # EOF /\ loc.line # <<>>

\* C12: a typed show_servers goes to the catalog count, create_server to
\* provisioning, update_servers (no arguments) to the bulk updater; the
\* unknown-command answer is given only to input that is none of these and not
\* exit/quit/q.
C12_Dispatch ==
    Typed =>
        LET cmd == lower(loc.line[1])
        IN  /\ cmd = "show_servers" => loc.fn = "show_servers"
            /\ cmd = "create_server" => loc.fn = "create_server"
            /\ loc.line = <<"update_servers">> => loc.fn = "update_servers"
            /\ "Unknown command" \in Said
                  => /\ cmd \notin {"show_servers", "create_server"}
                     /\ loc.line # <<"update_servers">>
                     /\ ~(Len(loc.line) = 1 /\ cmd \in {"exit", "quit", "q"})

\* C13: a reload that fails is reported, does not end the caller, and leaves the
\* cache exactly as it was before that reload (the running command has made no
\* other reload, so that is the cache the command started with).
C13_FailedReloadKeepsCache ==
    \A i \in Sent("list_node_allocations") :
        (i = Len(log) /\ log[i].failed)
            => /\ "Failed to load allocations" \in Said
               /\ pc \notin {"crashed", "raised"}
               /\ allocations = cache0

\* C14: every server-creation request asks for a server that is not started when
\* its installation completes.
C14_CreatedNotStarted ==
    \A i \in Sent("create_server") : log[i].start_on_completion = FALSE

\* the creation request of the running command was sent and failed
CreateFailed ==
    /\ loc.fn = "create_server" /\ pc = "returned"
    /\ Sent("create_server") # {} /\ ~loc.created.ok

\* after a failed creation: the failure is the last message, the creation request
\* is the last request (nothing deletes the allocation), and the port is still
\* in the cache
StopsAfterCreateFailed ==
    CreateFailed =>
        /\ out[Len(out)].msg = "Failed to create server"
        /\ Sent("create_server") = {Len(log)}
        /\ loc.server_port \in DOMAIN allocations

\* the step that sends the creation request leaves the cache as it was
SubmitKeepsCache ==
    (pc = "cs_submit" /\ pc' = "returned") => allocations' = allocations

\* C15: when the creation request fails, provisioning reports the failure and
\* stops without a further request; the allocation of the port is neither deleted
\* on the panel nor dropped from the cache, and the cache is exactly as it was
\* just before the creation request.
C15_NoRollback == [](StopsAfterCreateFailed) /\ [][SubmitKeepsCache]_vars

\* the allocation was created for this server, the creation failed, the port stays
C15_Witness ==
    /\ CreateFailed /\ Sent("create_allocations") # {}
    /\ loc.server_port \notin DOMAIN cache0
    /\ loc.server_port \in DOMAIN allocations

\* the configured prefixes show_servers selects by for the kind asked
ShownPrefixes ==
    (CASE loc.kind = "main" -> {cfg.MAIN_PREFIX}
       [] loc.kind = "interior" -> {cfg.INTERIOR_PREFIX}
       [] OTHER -> {cfg.MAIN_PREFIX, cfg.INTERIOR_PREFIX}) \ {<<>>}

\* C16: show_servers prints the number of listed records whose name is a
\* configured prefix of the selected kind followed by an all-digit suffix of value
\* >= 1; a name equal to the prefix alone is not counted and an unconfigured
\* prefix matches nothing.
C16_ShowCount ==
    (loc.fn = "show_servers" /\ pc = "returned" /\ Sent("list_servers") # {}) =>
        LET items == loc.listing.items
            counted == { i \in DOMAIN items :
                           \E P \in ShownPrefixes : NumbersAfter(<< items[i] >>, P) # {} }
        IN  out = << [msg |-> "count", n |-> Cardinality(counted)] >>

\* the prefix alone and a non-numeric suffix are listed; only I-1 is counted
C16_Witness ==
    /\ loc.fn = "show_servers" /\ pc = "returned" /\ loc.kind = "None"
    /\ loc.listing.ok
    /\ loc.listing.items = << <<"I", "-", "x">>, <<"M", "-">>, <<"I", "-", "1">> >>
    /\ cfg.MAIN_PREFIX = <<"M", "-">>
    /\ out = << [msg |-> "count", n |-> 1] >>

\* C18: a creation request carries the allocation id the cache maps the port to
\* at submit time; when the port is still missing from the cache after the
\* allocation request and the reload, no creation request is sent and a failure
\* is reported.
C18_SubmitNeedsAllocation ==
    /\ \A i \in Sent("create_server") :
          /\ loc.server_port \in DOMAIN allocations
          /\ log[i].default_allocation = allocations[loc.server_port]
    /\ (PortComputed /\ pc = "returned" /\ Sent("list_node_allocations") # {}
           /\ loc.server_port \notin DOMAIN allocations)
        => /\ Sent("create_server") = {}
           /\ out[Len(out)].msg = "Failed to create server"

\* the allocation was requested, the reload succeeded but did not list the port
C18_Witness ==
    /\ PortComputed /\ pc = "returned"
    /\ \E i \in Sent("list_node_allocations") : ~log[i].failed
    /\ loc.server_port \notin DOMAIN allocations
    /\ Sent("create_server") = {}
    /\ "Failed to create server" \in Said

(***************************************************************************)
(* Claims about the bulk updater (SpecUpdate)                              *)
(***************************************************************************)
\* positions of the selected servers that carry an id
WithId == { i \in DOMAIN loc.servers : loc.servers[i].id # 0 }

\* C7: when the run has ended, every selected server (a record with an id) whose
\* detail fetch, update and reinstall did not fail has received its update and
\* its reinstall request, every failing server is reported with its name, and
\* the whole list was processed.
C7_BatchIsolation ==
    (pc = "us_returned" /\ loc.servers # <<>>) =>
        /\ \A i \in WithId \ loc.failed :
              /\ \E j \in Sent("update_server_startup") :
                    log[j].server_id = loc.servers[i].id
              /\ \E j \in Sent("reinstall_server") :
                    log[j].server_id = loc.servers[i].id
        /\ \A i \in loc.failed :
              \E j \in DOMAIN out :
                  /\ out[j].msg \in {"Failed to fetch detailed info",
                                     "Failed to update/reinstall"}
                  /\ out[j].name = loc.servers[i].name
        /\ loc.i = Len(loc.servers) + 1
        /\ out[Len(out)].msg = "All servers processed."

\* the example of the claim: three servers, the detail fetch of the second fails,
\* the first and the third are updated and reinstalled
C7_Witness ==
    /\ pc = "us_returned" /\ Len(loc.servers) = 3 /\ WithId = {1, 2, 3}
    /\ loc.failed = {2}
    /\ \E j \in DOMAIN out : /\ out[j].msg = "Failed to fetch detailed info"
                              /\ out[j].name = loc.servers[2].name
    /\ \A i \in {1, 3} : \E j \in Sent("reinstall_server") :
                            log[j].server_id = loc.servers[i].id

\* the name of the selected record with the given id
NameOfId(id) == loc.servers[CHOOSE i \in DOMAIN loc.servers : loc.servers[i].id = id].name

\* name starts with a configured prefix and its part after the first hyphen is
\* all digits with value >= 1
Managed(name) ==
    /\ \E P \in {cfg.MAIN_PREFIX, cfg.INTERIOR_PREFIX} : P # <<>> /\ startswith(name, P)
    /\ \E k \in DOMAIN name :
          /\ name[k] = "-" /\ \A j \in 1..(k - 1) : name[j] # "-"
          /\ k < Len(name)
          /\ \A j \in (k + 1)..Len(name) : IsDigitChar(name[j])
          /\ \E j \in (k + 1)..Len(name) : name[j] # "0"

\* C11: whatever prefixes are configured (both, one, none), update and reinstall
\* requests go only to records whose name starts with a configured prefix and
\* whose part after the hyphen is all digits with value >= 1.
C11_OnlyManagedUpdated ==
    \A j \in Sent("update_server_startup") \cup Sent("reinstall_server") :
        Managed(NameOfId(log[j].server_id))

\* the selected record a request with the given id is about
RecordOfId(id) == loc.servers[CHOOSE i \in DOMAIN loc.servers : loc.servers[i].id = id]

\* a message with the given text was printed for the server of the given name
SaidFor(msg, name) == \E k \in DOMAIN out : out[k] = [msg |-> msg, name |-> name]

PerServer == {"get_server_info", "update_server_startup", "reinstall_server"}

\* C17: per server the requests come in the order detail fetch, update,
\* reinstall; the update follows only a successful detail fetch and carries the
\* egg id of the catalog record, the reinstall follows only a successful update,
\* and a record without an id gets no request at all.
C17_UpdateOrder ==
    /\ \A j \in DOMAIN log : log[j].op \in PerServer =>
          /\ log[j].server_id # 0
          /\ \E i \in DOMAIN loc.servers : loc.servers[i].id = log[j].server_id
          /\ \A k \in DOMAIN log :
                (log[k].op = log[j].op /\ log[k].server_id = log[j].server_id) => k = j
    /\ \A j \in Sent("update_server_startup") :
          /\ j > 1 /\ log[j - 1].op = "get_server_info"
          /\ log[j - 1].server_id = log[j].server_id
          /\ ~SaidFor("Failed to fetch detailed info", RecordOfId(log[j].server_id).name)
          /\ log[j].egg_id = RecordOfId(log[j].server_id).egg
    /\ \A j \in Sent("reinstall_server") :
          /\ j > 1 /\ log[j - 1].op = "update_server_startup"
          /\ log[j - 1].server_id = log[j].server_id
          /\ SaidFor("Startup/environment updated", RecordOfId(log[j].server_id).name)
    /\ \A j \in Sent("get_server_info") :
          (SaidFor("Failed to fetch detailed info", RecordOfId(log[j].server_id).name)
             /\ j < Len(log))
          => log[j + 1].op = "get_server_info"

\* a record without an id is skipped between two servers that are updated, and
\* the update of the last one fails, so that it is not reinstalled
C17_Witness ==
    /\ pc = "us_returned" /\ Len(loc.servers) = 3
    /\ loc.servers[2].id = 0 /\ loc.servers[1].id # 0 /\ loc.servers[3].id # 0
    /\ "Skipping server with missing id" \in Said
    /\ \E j \in Sent("reinstall_server") : log[j].server_id = loc.servers[1].id
    /\ \E j \in Sent("update_server_startup") : log[j].server_id = loc.servers[3].id
    /\ ~\E j \in Sent("reinstall_server") : log[j].server_id = loc.servers[3].id

(***************************************************************************)
(* Claims about the artifact upload (SpecUpload)                           *)
(***************************************************************************)
Attempts == Sent("files/write")
Successes == { i \in Attempts : ~log[i].answer.raised /\ log[i].answer.status_code = 204 }
Starts == Sent("power")

\* at most max_attempts attempts; a wait of the fixed delay between every two
\* consecutive attempts and none after the last; the run ends right after the
\* first success or after exactly max_attempts failed attempts with a report
UploadBounded ==
    /\ Cardinality(Attempts) <= loc.max_attempts
    /\ \A i \in Attempts : log[i].attempt = Cardinality({ j \in Attempts : j <= i })
    /\ \A i \in Attempts :
          (\E j \in Attempts : j < i) => (log[i - 1].op = "sleep" /\ log[i - 1].seconds = 5)
    /\ \A i \in Sent("sleep") :
          /\ i > 1 /\ log[i - 1].op = "files/write"
          /\ IF i = Len(log) THEN pc = "up_attempt" ELSE log[i + 1].op = "files/write"
    /\ pc = "up_done" =>
          \/ /\ Successes # {}
             /\ \A i \in Attempts : i \in Successes <=> (\A j \in Attempts : j <= i)
          \/ /\ Successes = {}
             /\ Cardinality(Attempts) = loc.max_attempts
             /\ "Failed to upload after max_attempts attempts" \in Said

\* C8: the upload makes at most max_attempts attempts (6 by default), waits the
\* fixed delay between consecutive attempts and not after the last one, and
\* always terminates: right after the first successful attempt or after exactly
\* max_attempts failed attempts with a failure report.
C8_UploadTerminates == [](UploadBounded) /\ <>(pc = "up_done")

\* six failed attempts with five waits, then the failure report
C8_Witness ==
    /\ pc = "up_done" /\ loc.max_attempts = 6
    /\ Cardinality(Attempts) = 6 /\ Successes = {}
    /\ Cardinality(Sent("sleep")) = 5
    /\ "Failed to upload after max_attempts attempts" \in Said

\* C9: the start action is issued at most once and only right after a successful
\* attempt; no attempt follows a success; a failed start is reported and ends
\* the run; when every attempt failed no start is issued and the manual-upload
\* guidance is reported.
C9_StartAfterUpload ==
    /\ Cardinality(Starts) <= 1
    /\ \A i \in Starts : i > 1 /\ (i - 1) \in Successes /\ i = Len(log)
    /\ \A i \in Successes : \A j \in Attempts : j <= i
    /\ \A i \in Starts : /\ pc = "up_done"
                          /\ ~log[i].ok => out[Len(out)].msg = "Failed to start server"
    /\ "Failed to start server" \in Said => (pc = "up_done" /\ Successes # {})
    /\ (pc = "up_done" /\ Successes = {})
          => /\ Starts = {}
             /\ out[Len(out)].msg = "Server created but JAR not uploaded. Upload manually"

\* the third attempt succeeds and the start request fails
C9_Witness ==
    /\ pc = "up_done" /\ Cardinality(Attempts) = 3 /\ Successes # {}
    /\ \E i \in Starts : ~log[i].ok
    /\ out[Len(out)].msg = "Failed to start server"

====
